---------------------------- MODULE Spec2Model ----------------------------
(***************************************************************************)
(* Model of the ICF ClaML exporter (src/icf_to_json.py, and its earlier    *)
(* version src/icf-to-json.py): the annotation resolver extract_rubrics,   *)
(* the record normalizer class_to_dict, and the recursive tree export      *)
(* export_icf with its index.                                              *)
(*                                                                         *)
(* Strings that the code inspects (label texts) are sequences of           *)
(* one-character strings.  A path is the sequence of its components        *)
(* ("b/d/d.json" is <<"b", "d", "d.json">>).  A Python dict that is        *)
(* iterated (the index) is a sequence of <<key, value>> pairs in insertion *)
(* order.                                                                  *)
(***************************************************************************)
EXTENDS Integers, Sequences, FiniteSets, TLC

VARIABLES
    \* ---- export run (specification Spec) ----
    doc,        \* the parsed document: sequence of Class elements
    lang,       \* requested language of the run
    pc,         \* "idle" | "walk" | "done" | "failed"
    err,        \* exception that aborted the run, or "none"
    rootIdx,    \* position in tops of the root being (or next to be) walked
    stack,      \* active calls of _save_class_recursive, innermost last
    index,      \* the in-memory index dict of the run
    files,      \* record files of the destination: path -> record
    dirs,       \* directories of the destination (set of paths)
    indexFile,  \* index.json of the destination: [exists, content]
    warnings,   \* codes reported by "Warnung: Unterklasse ... nicht gefunden"
    log,        \* writes of the current run, in order
    run,        \* number of runs started
    cleaned,    \* the current run started from an emptied destination
    prev,       \* destination and outcome at the end of the previous run
    \* ---- pure functions (specification SpecPure) ----
    cls,        \* a Class element
    qkind,      \* annotation kind asked for
    qlang,      \* language asked for
    texts,      \* result of extract_rubrics
    data,       \* result of class_to_dict
    fpc,        \* "ready" | "extracted" | "converted" | "raised"
    \* ---- views and client (specifications SpecViews, SpecStore, SpecRemote) ----
    flatFile,   \* icf_flat.json of the destination: [exists, content]
    view,       \* the last view call: arguments, outcome, files read or fetched
    cache,      \* _class_cache of the client: path -> record or None
    calls       \* number of client calls made

exportVars == <<doc, lang, pc, err, rootIdx, stack, index, files, dirs,
                indexFile, warnings, log, run, cleaned, prev>>
pureVars == <<cls, qkind, qlang, texts, data, fpc>>
viewVars == <<flatFile, view, cache, calls>>
vars == <<exportVars, pureVars, viewVars>>

(***************************************************************************)
(* Bounds of the model.                                                    *)
(***************************************************************************)
MaxClasses == 2
MaxSubs == 2
MaxRuns == 2
RecursionLimit == 3
MaxRubrics == 2
MaxLabels == 2

(***************************************************************************)
(* Values.                                                                 *)
(***************************************************************************)
NoCode == "<no code>"
NoKind == "<no kind>"
NoLang == "<no lang>"
NoText == <<"<None>">>

CodeNames == <<"b", "d", "e">>
Codes == {"b", "d", "e"}
JsonNames == [c \in Codes |->
                 CASE c = "b" -> "b.json"
                   [] c = "d" -> "d.json"
                   [] c = "e" -> "e.json"]
Langs == {"de", "en"}
RUBRIC_KINDS == <<"preferred", "definition", "coding-hint", "inclusion",
                  "exclusion", "text">>
Plural == [k \in {"definition", "coding-hint", "inclusion", "exclusion", "text"} |->
              CASE k = "definition" -> "definitions"
                [] k = "coding-hint" -> "coding-hints"
                [] k = "inclusion" -> "inclusions"
                [] k = "exclusion" -> "exclusions"
                [] k = "text" -> "texts"]
Whitespace == {" ", "\n"}

SeqsUpTo(S, n) == UNION {[1..k -> S] : k \in 0..n}

(***************************************************************************)
(* String helpers: str.strip(), str.split(), " ".join(...).                *)
(***************************************************************************)
RECURSIVE LStrip(_)
LStrip(s) ==
    IF s = <<>> THEN <<>>
    ELSE IF Head(s) \in Whitespace THEN LStrip(Tail(s)) ELSE s

RECURSIVE RStrip(_)
RStrip(s) ==
    IF s = <<>> THEN <<>>
    ELSE IF s[Len(s)] \in Whitespace THEN RStrip(SubSeq(s, 1, Len(s) - 1)) ELSE s

Strip(s) == RStrip(LStrip(s))

\* str.split(): the maximal runs of non-whitespace characters, in order.
RECURSIVE SplitFrom(_, _, _)
SplitFrom(s, cur, acc) ==
    IF s = <<>> THEN (IF cur = <<>> THEN acc ELSE Append(acc, cur))
    ELSE IF Head(s) \in Whitespace
         THEN SplitFrom(Tail(s), <<>>, IF cur = <<>> THEN acc ELSE Append(acc, cur))
         ELSE SplitFrom(Tail(s), Append(cur, Head(s)), acc)

Split(s) == SplitFrom(s, <<>>, <<>>)

RECURSIVE Join(_)
Join(ws) ==
    IF ws = <<>> THEN <<>>
    ELSE IF Len(ws) = 1 THEN ws[1]
    ELSE ws[1] \o <<" ">> \o Join(Tail(ws))

(***************************************************************************)
(* Parser functions.                                                       *)
(***************************************************************************)
\* [sub.attrib["code"] for sub in cls_elem.findall("SubClass")]
get_children_raises(elem) == \E i \in DOMAIN elem.subs : elem.subs[i] = NoCode
get_children_codes(elem) == elem.subs

\* The labels of one rubric that extract_rubrics keeps, normalised.
RECURSIVE LabelTextsTaggedOnly(_, _)
LabelTextsTaggedOnly(labels, lg) ==
    IF labels = <<>> THEN <<>>
    ELSE LET label == Head(labels)
             t == Strip(IF label.text = NoText THEN <<>> ELSE label.text)
             rest == LabelTextsTaggedOnly(Tail(labels), lg)
         IN  IF label.lang = lg /\ t # <<>>
             THEN <<Join(Split(t))>> \o rest
             ELSE rest

RECURSIVE LabelTexts(_, _)
LabelTexts(labels, lg) ==
    IF labels = <<>> THEN <<>>
    ELSE LET label == Head(labels)
             label_lang == IF label.lang = NoLang THEN lg ELSE label.lang
             t == Strip(IF label.text = NoText THEN <<>> ELSE label.text)
             rest == LabelTexts(Tail(labels), lg)
         IN  IF (label_lang = lg \/ label.lang = NoLang) /\ t # <<>>
             THEN <<Join(Split(t))>> \o rest
             ELSE rest

RECURSIVE RubricTexts(_, _, _)
RubricTexts(rubrics, kind, lg) ==
    IF rubrics = <<>> THEN <<>>
    ELSE LET rubric == Head(rubrics)
             rest == RubricTexts(Tail(rubrics), kind, lg)
         IN  IF rubric.kind # kind THEN rest
             ELSE LabelTexts(rubric.labels, lg) \o rest

extract_rubrics(elem, kind, lg) == RubricTexts(elem.rubrics, kind, lg)

\* The loop over RUBRIC_KINDS of class_to_dict, from position i on.
RECURSIVE AddRubricsAlwaysFull(_, _, _, _)
AddRubricsAlwaysFull(d, elem, lg, i) ==
    IF i > Len(RUBRIC_KINDS) THEN d
    ELSE LET kind == RUBRIC_KINDS[i]
             ts == extract_rubrics(elem, kind, lg)
             d2 == IF ts = <<>> THEN d
                   ELSE IF kind = "preferred"
                        THEN ("preferred" :> ts[1]) @@ ("preferred_full" :> ts) @@ d
                        ELSE (Plural[kind] :> ts) @@ d
         IN  AddRubricsAlwaysFull(d2, elem, lg, i + 1)

RECURSIVE AddRubricsKeepEmpty(_, _, _, _)
AddRubricsKeepEmpty(d, elem, lg, i) ==
    IF i > Len(RUBRIC_KINDS) THEN d
    ELSE LET kind == RUBRIC_KINDS[i]
             ts == extract_rubrics(elem, kind, lg)
             d2 == IF kind = "preferred"
                   THEN IF ts = <<>> THEN d
                        ELSE IF Len(ts) > 1
                             THEN ("preferred" :> ts[1]) @@ ("preferred_full" :> ts) @@ d
                             ELSE ("preferred" :> ts[1]) @@ d
                   ELSE (Plural[kind] :> ts) @@ d
         IN  AddRubricsKeepEmpty(d2, elem, lg, i + 1)

RECURSIVE AddRubrics(_, _, _, _)
AddRubrics(d, elem, lg, i) ==
    IF i > Len(RUBRIC_KINDS) THEN d
    ELSE LET kind == RUBRIC_KINDS[i]
             ts == extract_rubrics(elem, kind, lg)
             d2 == IF ts = <<>> THEN d
                   ELSE IF kind = "preferred"
                        THEN IF Len(ts) > 1
                             THEN ("preferred" :> ts[1]) @@ ("preferred_full" :> ts) @@ d
                             ELSE ("preferred" :> ts[1]) @@ d
                        ELSE (Plural[kind] :> ts) @@ d
         IN  AddRubrics(d2, elem, lg, i + 1)

class_to_dict_raises(elem) == elem.code = NoCode \/ get_children_raises(elem)
class_to_dict(elem, lg) ==
    AddRubrics([code |-> elem.code, kind |-> elem.kind,
                children |-> get_children_codes(elem)], elem, lg, 1)


(***************************************************************************)
(* Python dicts that are iterated: sequences of <<key, value>> pairs.      *)
(***************************************************************************)
DictKeys(d) == {d[i][1] : i \in DOMAIN d}
DictHas(d, k) == k \in DictKeys(d)
DictGet(d, k) == d[CHOOSE i \in DOMAIN d : d[i][1] = k][2]
\* d[k] = v: a present key keeps its position, a new key goes last.
DictSet(d, k, v) ==
    IF DictHas(d, k)
    THEN [i \in DOMAIN d |-> IF d[i][1] = k THEN <<k, v>> ELSE d[i]]
    ELSE Append(d, <<k, v>>)

\* {cls.attrib["code"]: cls for cls in root.findall("Class")}
build_code_map_raises(d) == \E i \in DOMAIN d : d[i].code = NoCode
RECURSIVE CodeMapFrom(_, _)
CodeMapFrom(d, acc) ==
    IF d = <<>> THEN acc
    ELSE CodeMapFrom(Tail(d), DictSet(acc, Head(d).code, Head(d)))
build_code_map(d) == CodeMapFrom(d, <<>>)

\* tops = [c for c in code_map.values() if c.attrib.get("kind") == "component"]
RECURSIVE Components(_)
Components(cm) ==
    IF cm = <<>> THEN <<>>
    ELSE IF Head(cm)[2].kind = "component"
         THEN <<Head(cm)[2]>> \o Components(Tail(cm))
         ELSE Components(Tail(cm))
topsAll(d) == [i \in DOMAIN build_code_map(d) |-> build_code_map(d)[i][2]]
tops(d) == Components(build_code_map(d))

(***************************************************************************)
(* The destination directory.                                              *)
(***************************************************************************)
NoFiles == <<>>
NoIndexFile == [exists |-> FALSE, content |-> <<>>]
Prefixes(p) == {SubSeq(p, 1, k) : k \in 1..Len(p)}

\* cls_dir.mkdir(parents=True, exist_ok=True)
MkdirStrict(ds, d) == [ok |-> d \notin ds, dirs |-> ds \cup Prefixes(d)]
Mkdir(ds, d) == [ok |-> TRUE, dirs |-> ds \cup Prefixes(d)]

\* json_path.write_text(...): creates the file or replaces its content.
WriteText(fs, p, content) == (p :> content) @@ fs

(***************************************************************************)
(* Source documents of the export runs.  Class i of a document carries the *)
(* i-th code name (codes are unique in a document); a SubClass names any   *)
(* code, also one that no Class of the document carries, or has no code    *)
(* attribute.  A document has at most MaxClasses Class elements and at     *)
(* most MaxSubs SubClass elements in all.  MalformedDocs are the documents *)
(* with a Class that has no code attribute.                                *)
(***************************************************************************)
RECURSIVE SumTo(_, _)
SumTo(cnt, i) == IF i = 0 THEN 0 ELSE cnt[i] + SumTo(cnt, i - 1)
Splits(n, k) == {cnt \in [1..k -> 0..n] : SumTo(cnt, k) = n}
Chunk(flat, cnt, i) == SubSeq(flat, SumTo(cnt, i - 1) + 1, SumTo(cnt, i))

StdRubrics == <<[kind |-> "preferred",
                 labels |-> <<[lang |-> "en", text |-> <<"x">>],
                              [lang |-> NoLang, text |-> <<"y">>]>>]>>
ClassKinds == {"component", "category"}

\* the document of n classes with the kinds ks and the SubClass elements flat,
\* of which class i has cnt[i]
DocOf(n, ks, flat, cnt) ==
    [i \in 1..n |-> [code |-> CodeNames[i], kind |-> ks[i],
                     subs |-> Chunk(flat, cnt, i), rubrics |-> StdRubrics]]

NoCodeElem == [code |-> NoCode, kind |-> "category", subs |-> <<>>, rubrics |-> <<>>]
\* the document of n classes of which class j has no code attribute
MalformedDoc(n, j) ==
    [i \in 1..n |-> IF i = j THEN NoCodeElem
                    ELSE [code |-> CodeNames[i], kind |-> "component",
                          subs |-> <<>>, rubrics |-> StdRubrics]]

IsDoc(d) ==
    \E n \in 1..MaxClasses :
       \/ \E flat \in SeqsUpTo(Codes \cup {NoCode}, MaxSubs) :
             \E cnt \in Splits(Len(flat), n) :
                \E ks \in [1..n -> ClassKinds] : d = DocOf(n, ks, flat, cnt)
       \/ \E j \in 1..n : d = MalformedDoc(n, j)

NoElem == [code |-> NoCode, kind |-> NoKind, subs |-> <<>>, rubrics |-> <<>>]
NoPrev == [files |-> NoFiles, indexFile |-> NoIndexFile, log |-> <<>>,
           pc |-> "idle", cleaned |-> TRUE]

PureIdle ==
    /\ cls = NoElem /\ qkind = NoKind /\ qlang = NoLang
    /\ texts = <<>> /\ data = <<>> /\ fpc = "off"

NoFlatFile == [exists |-> FALSE, content |-> <<>>]
NoView == [op |-> "none"]
NoCache == <<>>
ViewIdle == flatFile = NoFlatFile /\ view = NoView /\ cache = NoCache /\ calls = 0

Init ==
    /\ IsDoc(doc)
    /\ lang \in Langs
    /\ pc = "idle" /\ err = "none" /\ rootIdx = 1 /\ stack = <<>>
    /\ index = <<>> /\ files = NoFiles /\ dirs = {} /\ indexFile = NoIndexFile
    /\ warnings = <<>> /\ log = <<>> /\ run = 0 /\ cleaned = TRUE
    /\ prev = NoPrev
    /\ PureIdle
    /\ ViewIdle

(***************************************************************************)
(* main() up to the start of the walk: optional --clean, then export_icf   *)
(* parses the document, builds the code map and the list of roots and      *)
(* starts with an empty index.                                             *)
(***************************************************************************)
Main(clean) ==
    /\ pc \in {"idle", "done", "failed"}
    /\ run < MaxRuns
    /\ run' = run + 1
    /\ prev' = [files |-> files, indexFile |-> indexFile, log |-> log,
                pc |-> pc, cleaned |-> cleaned]
    /\ files' = IF clean THEN NoFiles ELSE files
    /\ dirs' = IF clean THEN {} ELSE dirs
    /\ indexFile' = IF clean THEN NoIndexFile ELSE indexFile
    /\ flatFile' = IF clean THEN NoFlatFile ELSE flatFile
    /\ cleaned' = (files' = NoFiles /\ dirs' = {} /\ ~indexFile'.exists
                   /\ ~flatFile'.exists)
    /\ index' = <<>> /\ stack' = <<>> /\ rootIdx' = 1
    /\ warnings' = <<>> /\ log' = <<>>
    /\ IF build_code_map_raises(doc)
       THEN pc' = "failed" /\ err' = "KeyError"
       ELSE pc' = "walk" /\ err' = "none"
    /\ UNCHANGED <<doc, lang>>
    /\ UNCHANGED pureVars
    /\ UNCHANGED <<view, cache, calls>>

(***************************************************************************)
(* One call of _save_class_recursive(cls_elem, code_map, target_dir, ...)  *)
(* up to its loop over the children: the directory, the record, the index  *)
(* entry.  st is the stack of the callers.                                 *)
(***************************************************************************)
\* An exception leaves export_icf at once: nothing after the loop over the
\* roots runs, so no index is written.
AbortPublishing(e, st) ==
    /\ pc' = "failed" /\ err' = e /\ stack' = st
    /\ indexFile' = [exists |-> TRUE, content |-> index]
    /\ log' = Append(log, [op |-> "index", code |-> "", path |-> <<"index.json">>])
    /\ UNCHANGED <<files, index>>
Abort(e, st) ==
    /\ pc' = "failed" /\ err' = e /\ stack' = st
    /\ UNCHANGED <<files, index, indexFile, log>>

save_class_recursive(elem, target_dir, st) ==
    LET cls_dir == target_dir \o <<elem.code>>
        made == Mkdir(dirs, cls_dir)
        d == class_to_dict(elem, lang)
        json_path == cls_dir \o <<JsonNames[d.code]>>
        rel == SubSeq(json_path, Len(target_dir) + 1, Len(json_path))
    IN  IF elem.code = NoCode
        \* cls_elem.attrib["code"] raises before any directory is made
        THEN Abort("KeyError", st) /\ UNCHANGED dirs
        ELSE IF ~made.ok
        THEN Abort("FileExistsError", st) /\ UNCHANGED dirs
        ELSE IF class_to_dict_raises(elem)
        THEN Abort("KeyError", st) /\ dirs' = made.dirs
        ELSE IF Len(st) >= RecursionLimit
        \* the call that is too deep fails in json_path.write_text, after
        \* cls_dir.mkdir and before the file is opened
        THEN Abort("RecursionError", st) /\ dirs' = made.dirs
        ELSE /\ pc' = "walk" /\ err' = "none"
             /\ dirs' = made.dirs
             /\ files' = WriteText(files, json_path, d)
             /\ index' = DictSet(index, d.code, rel)
             /\ log' = Append(log, [op |-> "record", code |-> d.code, path |-> json_path])
             /\ stack' = Append(st, [elem |-> elem, target_dir |-> target_dir,
                                     children |-> d.children, i |-> 1])
             /\ UNCHANGED indexFile

\* for comp in tops: _save_class_recursive(comp, code_map, target_dir, lang, index)
WalkRoot ==
    /\ pc = "walk" /\ stack = <<>>
    /\ rootIdx <= Len(tops(doc))
    /\ rootIdx' = rootIdx + 1
    /\ save_class_recursive(tops(doc)[rootIdx], <<>>, <<>>)
    /\ UNCHANGED <<doc, lang, warnings, run, cleaned, prev>>
    /\ UNCHANGED pureVars
    /\ UNCHANGED viewVars

Top == stack[Len(stack)]
Advance(st) == [st EXCEPT ![Len(st)].i = @ + 1]

\* for child_code in data["children"]: a code without source node is skipped
SkipChildBreak ==
    /\ pc = "walk" /\ stack # <<>>
    /\ Top.i <= Len(Top.children)
    /\ ~DictHas(build_code_map(doc), Top.children[Top.i])
    /\ warnings' = Append(warnings, Top.children[Top.i])
    /\ stack' = [stack EXCEPT ![Len(stack)].i = Len(Top.children) + 1]
    /\ UNCHANGED <<doc, lang, pc, err, rootIdx, index, files, dirs, indexFile,
                   log, run, cleaned, prev>>
    /\ UNCHANGED pureVars
    /\ UNCHANGED viewVars
SkipChild ==
    /\ pc = "walk" /\ stack # <<>>
    /\ Top.i <= Len(Top.children)
    /\ ~DictHas(build_code_map(doc), Top.children[Top.i])
    /\ warnings' = Append(warnings, Top.children[Top.i])
    /\ stack' = Advance(stack)
    /\ UNCHANGED <<doc, lang, pc, err, rootIdx, index, files, dirs, indexFile,
                   log, run, cleaned, prev>>
    /\ UNCHANGED pureVars
    /\ UNCHANGED viewVars

\* ... and the others are walked: _save_class_recursive(child_elem, ..., cls_dir, ...)
WalkChild ==
    /\ pc = "walk" /\ stack # <<>>
    /\ Top.i <= Len(Top.children)
    /\ DictHas(build_code_map(doc), Top.children[Top.i])
    /\ save_class_recursive(DictGet(build_code_map(doc), Top.children[Top.i]),
                            Top.target_dir \o <<Top.elem.code>>, Advance(stack))
    /\ UNCHANGED <<doc, lang, rootIdx, warnings, run, cleaned, prev>>
    /\ UNCHANGED pureVars
    /\ UNCHANGED viewVars

\* the loop over the children is over: the call returns
Return ==
    /\ pc = "walk" /\ stack # <<>>
    /\ Top.i > Len(Top.children)
    /\ stack' = SubSeq(stack, 1, Len(stack) - 1)
    /\ UNCHANGED <<doc, lang, pc, err, rootIdx, index, files, dirs, indexFile,
                   warnings, log, run, cleaned, prev>>
    /\ UNCHANGED pureVars
    /\ UNCHANGED viewVars

\* (target_dir / "index.json").write_text(json.dumps(index, ...))
WriteIndexInLoop ==
    /\ pc = "walk" /\ stack = <<>>
    /\ rootIdx > 1
    /\ (log = <<>> \/ log[Len(log)].op # "index")
    /\ indexFile' = [exists |-> TRUE, content |-> index]
    /\ log' = Append(log, [op |-> "index", code |-> "", path |-> <<"index.json">>])
    /\ pc' = IF rootIdx > Len(tops(doc)) THEN "done" ELSE "walk"
    /\ UNCHANGED <<doc, lang, err, rootIdx, stack, index, files, dirs,
                   warnings, run, cleaned, prev>>
    /\ UNCHANGED pureVars
    /\ UNCHANGED viewVars
WriteIndex ==
    /\ pc = "walk" /\ stack = <<>>
    /\ rootIdx > Len(tops(doc))
    /\ indexFile' = [exists |-> TRUE, content |-> index]
    /\ log' = Append(log, [op |-> "index", code |-> "", path |-> <<"index.json">>])
    /\ pc' = "done"
    /\ UNCHANGED <<doc, lang, err, rootIdx, stack, index, files, dirs,
                   warnings, run, cleaned, prev>>
    /\ UNCHANGED pureVars
    /\ UNCHANGED viewVars

Next ==
    \/ \E clean \in BOOLEAN : Main(clean)
    \/ WalkRoot
    \/ SkipChild
    \/ WalkChild
    \/ Return
    \/ WriteIndex

Spec == Init /\ [][Next]_vars

(***************************************************************************)
(* The pure functions on their own: a Class element with at most           *)
(* MaxRubrics Rubric elements and at most MaxLabels Label elements in all, *)
(* to which extract_rubrics or class_to_dict is applied once.              *)
(***************************************************************************)
LabelTextSamples == {NoText, <<" ">>, <<"x">>, <<" ", "x", " ", "\n", "y", " ">>}
Labels == [lang : Langs \cup {NoLang}, text : LabelTextSamples]
ElemRubricKinds == {"preferred", "definition"}
QueryKinds == {"preferred", "definition", "inclusion"}

\* the k rubrics of the kinds ks with the labels flat, of which rubric i has cnt[i]
RubricsOf(k, ks, flat, cnt) ==
    [i \in 1..k |-> [kind |-> ks[i], labels |-> Chunk(flat, cnt, i)]]

IsPureElem(e) ==
    \/ \E flat \in SeqsUpTo(Labels, MaxLabels) :
          \E k \in 0..MaxRubrics :
             \E cnt \in Splits(Len(flat), k) :
                \E ks \in [1..k -> ElemRubricKinds] :
                   e = [code |-> "b", kind |-> "component", subs |-> <<"d", "e">>,
                        rubrics |-> RubricsOf(k, ks, flat, cnt)]
    \/ \E h \in {<<"b", NoKind, <<>>>>, <<NoCode, "category", <<>>>>,
                 <<"b", "category", <<"d", NoCode>>>>} :
          \E rs \in {<<>>, StdRubrics} :
             e = [code |-> h[1], kind |-> h[2], subs |-> h[3], rubrics |-> rs]

ExportIdle ==
    /\ doc = <<NoCodeElem>> /\ lang = "de"
    /\ pc = "off" /\ err = "none" /\ rootIdx = 1 /\ stack = <<>>
    /\ index = <<>> /\ files = NoFiles /\ dirs = {} /\ indexFile = NoIndexFile
    /\ warnings = <<>> /\ log = <<>> /\ run = 0 /\ cleaned = TRUE
    /\ prev = NoPrev

InitPure ==
    /\ IsPureElem(cls)
    /\ qkind = NoKind /\ qlang = NoLang
    /\ texts = <<>> /\ data = <<>> /\ fpc = "ready"
    /\ ExportIdle
    /\ ViewIdle

ExtractRubrics ==
    /\ fpc = "ready"
    /\ \E k \in QueryKinds, l \in Langs :
          /\ qkind' = k /\ qlang' = l
          /\ texts' = extract_rubrics(cls, k, l)
    /\ fpc' = "extracted"
    /\ UNCHANGED <<cls, data>>
    /\ UNCHANGED exportVars
    /\ UNCHANGED viewVars

ClassToDict ==
    /\ fpc = "ready"
    /\ \E l \in Langs :
          /\ qlang' = l
          /\ IF class_to_dict_raises(cls)
             THEN data' = <<>> /\ fpc' = "raised"
             ELSE data' = class_to_dict(cls, l) /\ fpc' = "converted"
    /\ UNCHANGED <<cls, qkind, texts>>
    /\ UNCHANGED exportVars
    /\ UNCHANGED viewVars

NextPure == ExtractRubrics \/ ClassToDict

SpecPure == InitPure /\ [][NextPure]_vars

(***************************************************************************)
(* The views of icf_to_json.py over a destination: index.json (ixf) and    *)
(* the record files (fs).  Each returns [err, value, reads, warns]: the    *)
(* exception raised or "none", the value returned, the record files read   *)
(* in order and the codes warned about.                                    *)
(***************************************************************************)
None == [code |-> "<None>"]
Returned(v, rd, w) == [err |-> "none", value |-> v, reads |-> rd, warns |-> w]
Raised(e, rd, w) == [err |-> e, value |-> None, reads |-> rd, warns |-> w]

\* data.get("children", [])
Children(rec) == IF "children" \in DOMAIN rec THEN rec["children"] ELSE <<>>

\* json.loads((target_dir / "index.json").read_text(...))
load_index_raises(ixf) == ~ixf.exists

load_classGuessPath(code, ixf, fs) ==
    IF load_index_raises(ixf) THEN Raised("FileNotFoundError", <<>>, <<>>)
    ELSE LET rel == IF DictHas(ixf.content, code) THEN DictGet(ixf.content, code)
                    ELSE <<code, JsonNames[code]>>
         IN  IF rel \notin DOMAIN fs THEN Raised("FileNotFoundError", <<>>, <<>>)
             ELSE Returned(fs[rel], <<rel>>, <<>>)
load_class(code, ixf, fs) ==
    IF load_index_raises(ixf) THEN Raised("FileNotFoundError", <<>>, <<>>)
    ELSE IF ~DictHas(ixf.content, code) THEN Raised("KeyError", <<>>, <<>>)
    ELSE LET rel == DictGet(ixf.content, code)
         IN  IF rel \notin DOMAIN fs THEN Raised("FileNotFoundError", <<>>, <<>>)
             ELSE Returned(fs[rel], <<rel>>, <<>>)

\* _collect(codes, d) of list_children; acc carries the list built so far,
\* the files read and the exception that ended the walk.
RECURSIVE collect(_, _, _, _, _)
collect(codes, d, acc, ixf, fs) ==
    IF acc.err # "none" \/ d <= 0 \/ codes = <<>> THEN acc
    ELSE LET c == Head(codes)
             sub == load_class(c, ixf, fs)
             acc1 == [acc EXCEPT !.children = Append(acc.children, c)]
         IN  IF sub.err # "none" THEN [acc1 EXCEPT !.err = sub.err]
             ELSE collect(Tail(codes), d,
                          collect(Children(sub.value), d - 1,
                                  [acc1 EXCEPT !.reads = acc1.reads \o sub.reads],
                                  ixf, fs),
                          ixf, fs)

list_children(code, depth, ixf, fs) ==
    LET parent == load_class(code, ixf, fs)
    IN  IF parent.err # "none" THEN parent
        ELSE LET r == collect(Children(parent.value), depth,
                              [err |-> "none", children |-> <<>>,
                               reads |-> parent.reads], ixf, fs)
             IN  IF r.err # "none" THEN Raised(r.err, r.reads, <<>>)
                 ELSE Returned(r.children, r.reads, <<>>)

\* rel.count("/") of a path kept as its sequence of components
CountSlashes(rel) == Len(rel) - 1

RECURSIVE Sum(_)
Sum(s) == IF s = <<>> THEN 0 ELSE Head(s) + Sum(Tail(s))
RECURSIVE Max(_)
Max(s) == IF Len(s) = 1 THEN s[1]
          ELSE LET m == Max(Tail(s)) IN IF s[1] >= m THEN s[1] ELSE m

\* mean(counts) is the double nearest to the quotient num / den (53
\* significant bits, a tie going to the even mantissa).  FloatSide tells on
\* which side of the quotient that double lies: 1 above, -1 below, 0 when
\* the quotient is a double.  r is the remainder of the binary long division
\* so far, bits the number of significant bits produced, last the latest bit.
MantissaBits == 53
RECURSIVE BitLen(_)
BitLen(n) == IF n = 0 THEN 0 ELSE 1 + BitLen(n \div 2)
RECURSIVE FloatSideFrom(_, _, _, _)
FloatSideFrom(r, den, bits, last) ==
    IF r = 0 THEN 0
    ELSE IF bits >= MantissaBits
    THEN IF 2 * r > den THEN 1
         ELSE IF 2 * r < den THEN -1
         ELSE IF last = 1 THEN 1 ELSE -1
    ELSE LET b == (2 * r) \div den
         IN  FloatSideFrom((2 * r) % den, den,
                           IF bits > 0 \/ b = 1 THEN bits + 1 ELSE 0, b)
FloatSide(num, den) ==
    FloatSideFrom(num % den, den, BitLen(num \div den), (num \div den) % 2)

\* round(mean(counts), 2), in hundredths: the hundredth nearest to the double
\* mean(counts) returns.  When the quotient lies midway between two
\* hundredths the side of the double decides, and the even hundredth is taken
\* only when the double is that midpoint itself.
Round2(counts) ==
    LET total == Sum(counts)
        den == Len(counts)
        q == (100 * total) \div den
        r == (100 * total) % den
        side == FloatSide(total, den)
    IN  IF 2 * r < den THEN q
        ELSE IF 2 * r > den THEN q + 1
        ELSE IF side > 0 THEN q + 1
        ELSE IF side < 0 THEN q
        ELSE IF q % 2 = 0 THEN q ELSE q + 1

\* The entries of the index whose record file exists / does not exist.
Readable(ixf, fs) ==
    LET IsFile(e) == e[2] \in DOMAIN fs IN SelectSeq(ixf.content, IsFile)
Missing(ixf, fs) ==
    LET NoFile(e) == e[2] \notin DOMAIN fs
        m == SelectSeq(ixf.content, NoFile)
    IN  [i \in DOMAIN m |-> m[i][1]]

statsCountingMissing(ixf, fs) ==
    IF load_index_raises(ixf) THEN Raised("FileNotFoundError", <<>>, <<>>)
    ELSE LET ok == Readable(ixf, fs)
             depths == [i \in DOMAIN ixf.content |-> CountSlashes(ixf.content[i][2])]
             child_counts == [i \in DOMAIN ok |-> Len(Children(fs[ok[i][2]]))]
         IN  Returned([total_classes |-> Len(ixf.content),
                       max_depth |-> IF depths # <<>> THEN Max(depths) ELSE 0,
                       avg_children |-> IF child_counts # <<>>
                                        THEN Round2(child_counts) ELSE 0],
                      [i \in DOMAIN ok |-> ok[i][2]], Missing(ixf, fs))
\* avg_children is kept in hundredths.
stats(ixf, fs) ==
    IF load_index_raises(ixf) THEN Raised("FileNotFoundError", <<>>, <<>>)
    ELSE LET ok == Readable(ixf, fs)
             missing == Missing(ixf, fs)
             depths == [i \in DOMAIN ok |-> CountSlashes(ok[i][2])]
             child_counts == [i \in DOMAIN ok |-> Len(Children(fs[ok[i][2]]))]
         IN  Returned([total_classes |-> Len(ixf.content) - Len(missing),
                       max_depth |-> IF depths # <<>> THEN Max(depths) ELSE 0,
                       avg_children |-> IF child_counts # <<>>
                                        THEN Round2(child_counts) ELSE 0],
                      [i \in DOMAIN ok |-> ok[i][2]], missing)

\* flat = {code: record} over the readable entries, in index order
create_flat_json(ixf, fs) ==
    IF load_index_raises(ixf) THEN Raised("FileNotFoundError", <<>>, <<>>)
    ELSE LET ok == Readable(ixf, fs)
         IN  Returned([i \in DOMAIN ok |-> <<ok[i][1], fs[ok[i][2]]>>],
                      [i \in DOMAIN ok |-> ok[i][2]], Missing(ixf, fs))

\* str.lower() and str.upper() over the letters the model uses
UpperOf == ("b" :> "B") @@ ("d" :> "D") @@ ("e" :> "E") @@ ("f" :> "F")
           @@ ("x" :> "X") @@ ("y" :> "Y")
LowerChar(ch) ==
    IF \E l \in DOMAIN UpperOf : UpperOf[l] = ch
    THEN CHOOSE l \in DOMAIN UpperOf : UpperOf[l] = ch ELSE ch
UpperChar(ch) == IF ch \in DOMAIN UpperOf THEN UpperOf[ch] ELSE ch
Lower(s) == [i \in DOMAIN s |-> LowerChar(s[i])]

\* sub in s
Contains(s, sub) ==
    \E i \in 0..(Len(s) - Len(sub)) : SubSeq(s, i + 1, i + Len(sub)) = sub

\* In a record the preferred label is a str, every other annotation a list.
IsStr(fld) == fld = "preferred"
DEFAULT_FIELDS == <<"preferred", "definitions", "coding-hints">>

\* val = data.get(fld); val and ((str and q in val.lower()) or
\*                               (Iterable and any(q in str(x).lower() for x in val)))
FieldMatches(rec, fld, q) ==
    /\ fld \in DOMAIN rec
    /\ rec[fld] # <<>>
    /\ IF IsStr(fld)
       THEN \/ Contains(Lower(rec[fld]), q)
            \/ \E i \in DOMAIN rec[fld] : Contains(Lower(<<rec[fld][i]>>), q)
       ELSE \E i \in DOMAIN rec[fld] : Contains(Lower(rec[fld][i]), q)
Matches(rec, fields, q) == \E i \in DOMAIN fields : FieldMatches(rec, fields[i], q)

\* The loop of search_text from entry i on; limit 0 stands for no limit.
RECURSIVE search_scan(_, _, _, _, _, _, _, _)
search_scanNoBreak(i, results, reads, q, fields, limit, ixf, fs) ==
    LET ok == Readable(ixf, fs)
        IsHit(e) == Matches(fs[e[2]], fields, q)
        hits == SelectSeq(ok, IsHit)
        n == IF limit # 0 /\ Len(hits) > limit THEN limit ELSE Len(hits)
    IN  Returned([j \in 1..n |-> fs[hits[j][2]]], [j \in DOMAIN ok |-> ok[j][2]], <<>>)
search_scan(i, results, reads, q, fields, limit, ixf, fs) ==
    IF i > Len(ixf.content) THEN Returned(results, reads, <<>>)
    ELSE LET rel == ixf.content[i][2]
         IN  IF rel \notin DOMAIN fs
             THEN search_scan(i + 1, results, reads, q, fields, limit, ixf, fs)
             ELSE LET res2 == IF Matches(fs[rel], fields, q)
                              THEN Append(results, fs[rel]) ELSE results
                      rd2 == Append(reads, rel)
                  IN  IF limit # 0 /\ Len(res2) >= limit
                      THEN Returned(res2, rd2, <<>>)
                      ELSE search_scan(i + 1, res2, rd2, q, fields, limit, ixf, fs)

search_text(query, fields, limit, ixf, fs) ==
    IF load_index_raises(ixf) THEN Raised("FileNotFoundError", <<>>, <<>>)
    ELSE search_scan(1, <<>>, <<>>, Lower(query), fields, limit, ixf, fs)

(***************************************************************************)
(* The views as calls on the destination.  A call leaves its arguments and *)
(* its outcome in view.                                                    *)
(***************************************************************************)
MaxDepth == 2
MaxLimit == 2
Queries == {<<"x">>, <<"Y">>}

ViewsReady == pc \in {"done", "store"}
Call(op, code, depth, query, limit, r) ==
    [op |-> op, code |-> code, depth |-> depth, query |-> query, limit |-> limit,
     err |-> r.err, result |-> r.value, reads |-> r.reads, warns |-> r.warns]

LoadClass ==
    /\ ViewsReady
    /\ \E code \in Codes :
          view' = Call("load_class", code, 0, <<>>, 0, load_class(code, indexFile, files))
    /\ UNCHANGED <<exportVars, pureVars, flatFile, cache, calls>>

ListChildren ==
    /\ ViewsReady
    /\ \E code \in Codes, depth \in 1..MaxDepth :
          view' = Call("list_children", code, depth, <<>>, 0,
                       list_children(code, depth, indexFile, files))
    /\ UNCHANGED <<exportVars, pureVars, flatFile, cache, calls>>

SearchText ==
    /\ ViewsReady
    /\ \E query \in Queries, limit \in 0..MaxLimit :
          view' = Call("search_text", "", 0, query, limit,
                       search_text(query, DEFAULT_FIELDS, limit, indexFile, files))
    /\ UNCHANGED <<exportVars, pureVars, flatFile, cache, calls>>

\* a stats that drops the entries without record file from index.json
StatsPruning ==
    /\ ViewsReady
    /\ view' = Call("stats", "", 0, <<>>, 0, stats(indexFile, files))
    /\ indexFile' = [indexFile EXCEPT !.content = Readable(indexFile, files)]
    /\ UNCHANGED <<doc, lang, pc, err, rootIdx, stack, index, files, dirs,
                   warnings, log, run, cleaned, prev>>
    /\ UNCHANGED <<pureVars, flatFile, cache, calls>>
Stats ==
    /\ ViewsReady
    /\ view' = Call("stats", "", 0, <<>>, 0, stats(indexFile, files))
    /\ UNCHANGED <<exportVars, pureVars, flatFile, cache, calls>>

\* (target_dir / fname).write_text(json.dumps(flat, ...))
CreateFlatJson ==
    /\ ViewsReady
    /\ LET r == create_flat_json(indexFile, files)
       IN  /\ view' = Call("create_flat_json", "", 0, <<>>, 0, r)
           /\ flatFile' = IF r.err = "none"
                          THEN [exists |-> TRUE, content |-> r.value] ELSE flatFile
    /\ UNCHANGED <<exportVars, pureVars, cache, calls>>

(***************************************************************************)
(* Specification SpecStore: the local views over any                       *)
(* destination: an index of up to MaxEntries codes, each path either       *)
(* <code>/<code>.json or nested below b, each record file missing (0) or   *)
(* present with one of the children lists of StoreChildren.                *)
(***************************************************************************)
MaxEntries == 3
StoreChildren == <<<<>>, <<"d", "e">>, <<"d", "e", "d", "e">>>>
StorePaths(c) == {<<c, JsonNames[c]>>} \cup
                 (IF c = "b" THEN {} ELSE {<<"b", c, JsonNames[c]>>})
StoreRecord(c, ch) == [code |-> c, kind |-> "category", children |-> ch]
StoreFiles(paths, recs) ==
    LET present == {i \in DOMAIN paths : recs[i] # None}
    IN  [p \in {paths[i] : i \in present} |->
            recs[CHOOSE i \in present : paths[i] = p]]
StoreDirs(fs) == UNION {Prefixes(SubSeq(p, 1, Len(p) - 1)) : p \in DOMAIN fs}

InitStore ==
    /\ \E n \in 0..MaxEntries :
       \E cs \in [1..n -> Codes] :
          /\ \A i, j \in 1..n : i # j => cs[i] # cs[j]
          /\ \E paths \in [1..n -> UNION {StorePaths(c) : c \in Codes}] :
                /\ \A i \in 1..n : paths[i] \in StorePaths(cs[i])
                /\ \E chs \in [1..n -> 0..Len(StoreChildren)] :
                      LET recs == [i \in 1..n |->
                                     IF chs[i] = 0 THEN None
                                     ELSE StoreRecord(cs[i], StoreChildren[chs[i]])]
                      IN  /\ indexFile = [exists |-> TRUE,
                                          content |-> [i \in 1..n |-> <<cs[i], paths[i]>>]]
                          /\ files = StoreFiles(paths, recs)
                          /\ dirs = StoreDirs(files)
    /\ doc = <<NoCodeElem>> /\ lang = "de"
    /\ pc = "store" /\ err = "none" /\ rootIdx = 1 /\ stack = <<>>
    /\ index = <<>> /\ warnings = <<>> /\ log = <<>> /\ run = 0
    /\ cleaned = FALSE /\ prev = NoPrev
    /\ PureIdle
    /\ ViewIdle

NextStore ==
    \/ Stats
    \/ CreateFlatJson
    \/ LoadClass
    \/ ListChildren
    \/ SearchText

SpecStore == InitStore /\ [][NextStore]_vars

(***************************************************************************)
(* The client icf_github_client.py.  The repository it reads is a          *)
(* published destination: index.json (ixf) and the files (fs) below        *)
(* BASE_URL.  net is the state of the network during a call: "up" (a       *)
(* request is answered 200 or 404 by the file's existence), "http500"      *)
(* (every request is answered with status 500) or "down" (every request    *)
(* raises a connection error).  A path is kept as rel_path.split("/").     *)
(***************************************************************************)
Nets == {"up", "http500", "down"}

\* f"{code}.json", for a code or its upper case
UpperJsonNames == [c \in {UpperOf[x] : x \in Codes} |->
                     CASE c = "B" -> "B.json" [] c = "D" -> "D.json" [] c = "E" -> "E.json"]
JsonOf(c) == IF c \in DOMAIN JsonNames THEN JsonNames[c] ELSE UpperJsonNames[c]

\* resp = requests.get(url); resp.raise_for_status(); resp.json()
GetStatus(p, fs, net) ==
    CASE net = "down" -> "ConnectionError"
      [] net = "http500" -> "500"
      [] OTHER -> IF p \in DOMAIN fs THEN "200" ELSE "404"

fetch_index(ixf, net) ==
    IF net = "down" THEN Raised("ConnectionError", <<>>, <<>>)
    ELSE IF net = "http500" \/ ~ixf.exists THEN Raised("HTTPError", <<>>, <<>>)
    ELSE Returned(ixf.content, <<>>, <<>>)

\* code = rel_path.split("/")[0]
CodeOfPath(rel) == rel[1]
alternatives(code) ==
    <<<<JsonOf(code)>>, <<code, code>>, <<UpperChar(code), JsonOf(UpperChar(code))>>>>

\* f"Fehlender Eintrag: {code}"
MissingEntry(code) ==
    <<"F", "e", "h", "l", "e", "n", "d", "e", "r", " ",
      "E", "i", "n", "t", "r", "a", "g", ":", " ", code>>
fallback_data(code) ==
    [code |-> code, preferred |-> MissingEntry(code),
     definitions |-> <<>>, children |-> <<>>]

\* The result of fetch_class: the value returned, the cache afterwards and
\* the requests sent, in order.
Fetched(v, rel, cch, rd) == [value |-> v, cache |-> (rel :> v) @@ cch, reads |-> rd]

\* The 404 branch: the alternatives in order, then the placeholder.
Fetch404(rel, cch, fs, net) ==
    LET code == CodeOfPath(rel)
        alts == alternatives(code)
        found == {i \in DOMAIN alts : GetStatus(alts[i], fs, net) = "200"}
    IN  IF found = {}
        THEN Fetched(fallback_data(code), rel, cch, <<rel>> \o alts)
        ELSE LET k == CHOOSE i \in found : \A j \in found : i <= j
             IN  Fetched(fs[alts[k]], rel, cch, <<rel>> \o SubSeq(alts, 1, k))

\* fetch_class on a path that is not in the cache
FetchMissNoneOn404(rel, cch, fs, net) ==
    IF GetStatus(rel, fs, net) = "200" THEN Fetched(fs[rel], rel, cch, <<rel>>)
    ELSE Fetched(None, rel, cch, <<rel>>)
FetchMiss(rel, cch, fs, net) ==
    LET status == GetStatus(rel, fs, net)
    IN  IF status = "200" THEN Fetched(fs[rel], rel, cch, <<rel>>)
        ELSE IF status = "404" THEN Fetch404(rel, cch, fs, net)
        ELSE Fetched(None, rel, cch, <<rel>>)

fetch_classRetryNone(rel, cch, fs, net) ==
    IF rel \in DOMAIN cch /\ cch[rel] # None
    THEN [value |-> cch[rel], cache |-> cch, reads |-> <<>>]
    ELSE FetchMiss(rel, cch, fs, net)
fetch_class(rel, cch, fs, net) ==
    IF rel \in DOMAIN cch THEN [value |-> cch[rel], cache |-> cch, reads |-> <<>>]
    ELSE FetchMiss(rel, cch, fs, net)

\* Results of the client's views carry the cache they leave behind.
ClientReturned(v, rd, cch) == [err |-> "none", value |-> v, reads |-> rd, cache |-> cch]
ClientRaised(e, rd, cch) == [err |-> e, value |-> None, reads |-> rd, cache |-> cch]

\* isinstance(val, str) and q in val.lower(), or
\* isinstance(val, list) and any(q in str(x).lower() for x in val)
ClientFieldMatches(rec, fld, q) ==
    /\ fld \in DOMAIN rec
    /\ IF IsStr(fld) THEN Contains(Lower(rec[fld]), q)
       ELSE \E i \in DOMAIN rec[fld] : Contains(Lower(rec[fld][i]), q)
ClientMatches(rec, fields, q) ==
    \E i \in DOMAIN fields : ClientFieldMatches(rec, fields[i], q)

\* The loop of the client's search_text from entry i on.
RECURSIVE client_search_scan(_, _, _, _, _, _, _, _, _, _)
client_search_scan(i, results, reads, cch, q, fields, limit, idx, fs, net) ==
    IF i > Len(idx) THEN ClientReturned(results, reads, cch)
    ELSE LET f == fetch_class(idx[i][2], cch, fs, net)
             rd2 == reads \o f.reads
         IN  IF f.value = None
             THEN client_search_scan(i + 1, results, rd2, f.cache, q, fields, limit,
                                     idx, fs, net)
             ELSE LET res2 == IF ClientMatches(f.value, fields, q)
                              THEN Append(results, f.value) ELSE results
                  IN  IF Len(res2) >= limit THEN ClientReturned(res2, rd2, f.cache)
                      ELSE client_search_scan(i + 1, res2, rd2, f.cache, q, fields,
                                              limit, idx, fs, net)

client_search_text(query, fields, limit, cch, ixf, fs, net) ==
    LET idx == fetch_index(ixf, net)
    IN  IF idx.err # "none" THEN ClientRaised(idx.err, <<>>, cch)
        ELSE client_search_scan(1, <<>>, <<>>, cch, Lower(query), fields, limit,
                                idx.value, fs, net)

\* _collect(codes, d) of the client's list_children
RECURSIVE client_collect(_, _, _, _, _, _)
client_collect(codes, d, acc, idx, fs, net) ==
    IF acc.err # "none" \/ d <= 0 \/ codes = <<>> THEN acc
    ELSE LET c == Head(codes)
             acc1 == [acc EXCEPT !.children = Append(acc.children, c)]
         IN  IF ~DictHas(idx, c) THEN [acc1 EXCEPT !.err = "KeyError"]
             ELSE LET sub == fetch_class(DictGet(idx, c), acc1.cache, fs, net)
                      acc2 == [acc1 EXCEPT !.reads = acc1.reads \o sub.reads,
                                           !.cache = sub.cache]
                  IN  client_collect(Tail(codes), d,
                                     IF sub.value # None
                                     THEN client_collect(Children(sub.value), d - 1,
                                                         acc2, idx, fs, net)
                                     ELSE acc2,
                                     idx, fs, net)

client_list_children(code, depth, cch, ixf, fs, net) ==
    LET idx == fetch_index(ixf, net)
    IN  IF idx.err # "none" THEN ClientRaised(idx.err, <<>>, cch)
        ELSE IF ~DictHas(idx.value, code) THEN ClientRaised("KeyError", <<>>, cch)
        ELSE LET root == fetch_class(DictGet(idx.value, code), cch, fs, net)
             IN  IF root.value = None
                 THEN ClientRaised("AttributeError", root.reads, root.cache)
                 ELSE LET r == client_collect(Children(root.value), depth,
                                              [err |-> "none", children |-> <<>>,
                                               reads |-> root.reads,
                                               cache |-> root.cache],
                                              idx.value, fs, net)
                      IN  IF r.err # "none" THEN ClientRaised(r.err, r.reads, r.cache)
                          ELSE ClientReturned(r.children, r.reads, r.cache)

\* The loop of the client's stats: the children counts of the entries
\* fetched, with the requests and the cache.
RECURSIVE client_stats_scan(_, _, _, _, _, _, _)
client_stats_scan(i, counts, reads, cch, idx, fs, net) ==
    IF i > Len(idx) THEN [counts |-> counts, reads |-> reads, cache |-> cch]
    ELSE LET f == fetch_class(idx[i][2], cch, fs, net)
         IN  client_stats_scan(i + 1,
                               IF f.value # None
                               THEN Append(counts, Len(Children(f.value))) ELSE counts,
                               reads \o f.reads, f.cache, idx, fs, net)

\* avg_children is kept in hundredths.
client_stats(cch, ixf, fs, net) ==
    LET idx == fetch_index(ixf, net)
    IN  IF idx.err # "none" THEN ClientRaised(idx.err, <<>>, cch)
        ELSE LET depths == [i \in DOMAIN idx.value |-> CountSlashes(idx.value[i][2])]
                 s == client_stats_scan(1, <<>>, <<>>, cch, idx.value, fs, net)
             IN  ClientReturned([total_classes |-> Len(idx.value),
                                 max_depth |-> IF depths # <<>> THEN Max(depths) ELSE 0,
                                 avg_children |-> IF s.counts # <<>>
                                                  THEN Round2(s.counts) ELSE 0],
                                s.reads, s.cache)

\* for code, rel_path in list(idx.items())[:20]: fetch_class(rel_path)
VerifySample == 20
RECURSIVE verify_scan(_, _, _, _, _, _)
verify_scan(i, reads, cch, idx, fs, net) ==
    IF i > Len(idx) \/ i > VerifySample THEN [reads |-> reads, cache |-> cch]
    ELSE LET f == fetch_class(idx[i][2], cch, fs, net)
         IN  verify_scan(i + 1, reads \o f.reads, f.cache, idx, fs, net)

\* verify_repository(): fetches the entry of the code b when the index has
\* it, then the first entries of the index; it only prints what it finds,
\* swallows every exception and returns None.
verify_repository(cch, ixf, fs, net) ==
    LET idx == fetch_index(ixf, net)
    IN  IF idx.err # "none" THEN ClientReturned(None, <<>>, cch)
        ELSE LET known == IF DictHas(idx.value, "b")
                          THEN fetch_class(DictGet(idx.value, "b"), cch, fs, net)
                          ELSE [value |-> None, cache |-> cch, reads |-> <<>>]
                 s == verify_scan(1, known.reads, known.cache, idx.value, fs, net)
             IN  ClientReturned(None, s.reads, s.cache)

(***************************************************************************)
(* The client's functions as calls.  _class_cache lives as long as the     *)
(* process: every call starts from the cache the calls before it left.     *)
(***************************************************************************)
MaxCalls == 2

ClientCall(op, code, depth, query, limit, path, net, r) ==
    [op |-> op, code |-> code, depth |-> depth, query |-> query, limit |-> limit,
     path |-> path, net |-> net,
     err |-> r.err, result |-> r.value, reads |-> r.reads]

FetchClass ==
    /\ ViewsReady /\ calls < MaxCalls
    /\ \E i \in DOMAIN indexFile.content, net \in Nets :
          LET rel == indexFile.content[i][2]
              f == fetch_class(rel, cache, files, net)
          IN  /\ view' = ClientCall("fetch_class", "", 0, <<>>, 0, rel, net,
                                    ClientReturned(f.value, f.reads, f.cache))
              /\ cache' = f.cache
    /\ calls' = calls + 1
    /\ UNCHANGED <<exportVars, pureVars, flatFile>>

ClientSearchText ==
    /\ ViewsReady /\ calls < MaxCalls
    /\ \E query \in Queries, limit \in 0..MaxLimit, net \in Nets :
          LET r == client_search_text(query, DEFAULT_FIELDS, limit, cache,
                                      indexFile, files, net)
          IN  /\ view' = ClientCall("client.search_text", "", 0, query, limit, <<>>, net, r)
              /\ cache' = r.cache
    /\ calls' = calls + 1
    /\ UNCHANGED <<exportVars, pureVars, flatFile>>

ClientListChildren ==
    /\ ViewsReady /\ calls < MaxCalls
    /\ \E code \in Codes, depth \in 1..MaxDepth, net \in Nets :
          LET r == client_list_children(code, depth, cache, indexFile, files, net)
          IN  /\ view' = ClientCall("client.list_children", code, depth, <<>>, 0, <<>>,
                                    net, r)
              /\ cache' = r.cache
    /\ calls' = calls + 1
    /\ UNCHANGED <<exportVars, pureVars, flatFile>>

ClientStats ==
    /\ ViewsReady /\ calls < MaxCalls
    /\ \E net \in Nets :
          LET r == client_stats(cache, indexFile, files, net)
          IN  /\ view' = ClientCall("client.stats", "", 0, <<>>, 0, <<>>, net, r)
              /\ cache' = r.cache
    /\ calls' = calls + 1
    /\ UNCHANGED <<exportVars, pureVars, flatFile>>

VerifyRepository ==
    /\ ViewsReady /\ calls < MaxCalls
    /\ \E net \in Nets :
          LET r == verify_repository(cache, indexFile, files, net)
          IN  /\ view' = ClientCall("verify_repository", "", 0, <<>>, 0, <<>>, net, r)
              /\ cache' = r.cache
    /\ calls' = calls + 1
    /\ UNCHANGED <<exportVars, pureVars, flatFile>>

(***************************************************************************)
(* Specification SpecViews: an export, then the views on its destination   *)
(* and the client on the same tree once it is published.                   *)
(***************************************************************************)
ExportStep == Next /\ view = NoView
\* The first call of a client process, the network being up.
PublishedListChildren == ClientListChildren /\ calls = 0 /\ view'.net = "up"

NextViews ==
    \/ ExportStep
    \/ LoadClass
    \/ ListChildren
    \/ SearchText
    \/ Stats
    \/ CreateFlatJson
    \/ PublishedListChildren

SpecViews == Init /\ [][NextViews]_vars

(***************************************************************************)
(* Specification SpecRemote: the client, and the local views beside it,    *)
(* over any small repository: an index of up to MaxRepoEntries of the      *)
(* codes b and d (e stays a code without index entry), each                *)
(* path <code>/<code>.json or nested below b, each record file missing (0) *)
(* or present with one of RepoRecords, and at most one more file at an     *)
(* alternative address of b.                                               *)
(***************************************************************************)
MaxRepoEntries == 2
RepoCodes == {"b", "d"}
RepoRecords(c) ==
    <<[code |-> c, kind |-> "category", children |-> <<>>, preferred |-> <<"X", "y">>],
      [code |-> c, kind |-> "category", children |-> <<"d", "e">>,
       definitions |-> <<<<"y">>>>]>>
RepoExtras == {NoFiles} \cup
              {(alternatives("b")[k] :> RepoRecords("b")[1]) : k \in 1..3}

InitRemote ==
    /\ \E n \in 1..MaxRepoEntries :
       \E cs \in [1..n -> RepoCodes] :
          /\ \A i, j \in 1..n : i # j => cs[i] # cs[j]
          /\ \E paths \in [1..n -> UNION {StorePaths(c) : c \in Codes}] :
                /\ \A i \in 1..n : paths[i] \in StorePaths(cs[i])
                /\ \E vs \in [1..n -> 0..2], extra \in RepoExtras :
                      LET recs == [i \in 1..n |->
                                     IF vs[i] = 0 THEN None
                                     ELSE RepoRecords(cs[i])[vs[i]]]
                      IN  /\ indexFile = [exists |-> TRUE,
                                          content |-> [i \in 1..n |-> <<cs[i], paths[i]>>]]
                          /\ files = StoreFiles(paths, recs) @@ extra
                          /\ dirs = StoreDirs(files)
    /\ doc = <<NoCodeElem>> /\ lang = "de"
    /\ pc = "store" /\ err = "none" /\ rootIdx = 1 /\ stack = <<>>
    /\ index = <<>> /\ warnings = <<>> /\ log = <<>> /\ run = 0
    /\ cleaned = FALSE /\ prev = NoPrev
    /\ PureIdle
    /\ ViewIdle

NextRemote ==
    \/ FetchClass
    \/ ClientSearchText
    \/ ClientListChildren
    \/ ClientStats
    \/ VerifyRepository
    \/ LoadClass
    \/ ListChildren
    \/ SearchText

SpecRemote == InitRemote /\ [][NextRemote]_vars


(***************************************************************************)
(* What the properties speak of.                                           *)
(***************************************************************************)
Defined == {doc[i].code : i \in DOMAIN doc} \ {NoCode}
Node(c) == doc[CHOOSE i \in DOMAIN doc : doc[i].code = c]
Roots == {c \in Defined : Node(c).kind = "component"}
\* declared child codes of c that resolve to a source node
Kids(c) == {Node(c).subs[i] : i \in DOMAIN Node(c).subs} \cap Defined
MissingKids(c) == {Node(c).subs[i] : i \in DOMAIN Node(c).subs} \ (Defined \cup {NoCode})

RECURSIVE Closure(_)
Closure(S) ==
    LET T == S \cup UNION {Kids(c) : c \in S}
    IN  IF T = S THEN S ELSE Closure(T)
Reachable == Closure(Roots)
Descendants(c) == Closure(Kids(c))

WellFormed == \A i \in DOMAIN doc :
                 doc[i].code # NoCode /\ \A j \in DOMAIN doc[i].subs : doc[i].subs[j] # NoCode
Acyclic == \A c \in Reachable : c \notin Descendants(c)

Ended == pc \in {"done", "failed"}
RecordWrites == {i \in DOMAIN log : log[i].op = "record"}
IndexWrites == {i \in DOMAIN log : log[i].op = "index"}
Visits(c) == Cardinality({i \in RecordWrites : log[i].code = c})
FirstVisit(c) == log[CHOOSE i \in RecordWrites :
                        /\ log[i].code = c
                        /\ \A j \in RecordWrites : log[j].code = c => i <= j].path

(***************************************************************************)
(* C1: export_icf terminates on every document, also one whose SubClass    *)
(* declarations form a cycle: the walk never descends again into a node    *)
(* that it is already inside of, and so never exhausts the call stack.     *)
(***************************************************************************)
C1_NoRedescent ==
    /\ \A i, j \in DOMAIN stack : i # j => stack[i].elem.code # stack[j].elem.code
    /\ err # "RecursionError"

(***************************************************************************)
(* C2: in one run every node's record is written at most once, and the     *)
(* index entry of a node is the storage location of its first visit.       *)
(* Stated for the documents without cycles, which C1 is about.             *)
(***************************************************************************)
C2_VisitedOnce ==
    (WellFormed /\ Acyclic) =>
       /\ \A c \in Codes : Visits(c) <= 1
       /\ pc = "done" =>
             \A i \in DOMAIN indexFile.content :
                indexFile.content[i][2] = FirstVisit(indexFile.content[i][1])

(***************************************************************************)
(* C3: when the export completes, the index it writes has exactly one      *)
(* entry for every code reachable from a component root through declared   *)
(* child codes that resolve to source nodes, and no other entry.           *)
(***************************************************************************)
C3_IndexComplete ==
    pc = "done" =>
       /\ indexFile.exists
       /\ DictKeys(indexFile.content) = Reachable
       /\ Len(indexFile.content) = Cardinality(Reachable)

C3_Witness ==
    /\ pc = "done"
    /\ Defined \ Reachable # {}
    /\ \E c \in Reachable : MissingKids(c) # {}

(***************************************************************************)
(* C4: a declared child code without source node gives a warning, no       *)
(* record and no index entry; the later siblings and the later roots are   *)
(* still visited, and the export completes and writes the index (a         *)
(* well-formed acyclic document never fails).                              *)
(***************************************************************************)
C4_MissingChildSkipped ==
    /\ \A i \in DOMAIN warnings : warnings[i] \notin Defined
    /\ \A c \in Codes \ Defined :
          /\ ~DictHas(index, c)
          /\ Visits(c) = 0
          /\ \A f \in DOMAIN files : f[Len(f)] # JsonNames[c]
    /\ (WellFormed /\ Acyclic) => pc # "failed"
    /\ pc = "done" =>
          /\ indexFile.exists
          /\ Roots \subseteq DictKeys(indexFile.content)
          /\ \A c \in DictKeys(indexFile.content) :
                /\ Kids(c) \subseteq DictKeys(indexFile.content)
                /\ MissingKids(c) \subseteq {warnings[i] : i \in DOMAIN warnings}

C4_Witness ==
    /\ pc = "done"
    /\ doc[1].kind = "component"
    /\ doc[1].subs = <<"e", "d">>
    /\ Len(doc) = 2 /\ doc[2].kind = "component"
    /\ warnings = <<"e">>
    /\ DictKeys(indexFile.content) = {"b", "d"}

(***************************************************************************)
(* C5: in one run index.json is written at most once, and exactly once by  *)
(* a run that completes; the write is the last write of the run, after the *)
(* walk over all roots, so every record write precedes it.                 *)
(***************************************************************************)
C5_IndexWrittenLast ==
    /\ \A i \in IndexWrites :
          /\ i = Len(log)
          /\ pc = "done" /\ stack = <<>> /\ rootIdx > Len(tops(doc))
          /\ \A c \in Roots : Visits(c) >= 1
    /\ pc = "done" => /\ Cardinality(IndexWrites) = 1
                      /\ indexFile = [exists |-> TRUE, content |-> index]

C5_Witness ==
    /\ pc = "done"
    /\ Cardinality(Roots) >= 2
    /\ Cardinality(RecordWrites) >= 3
    /\ log[Len(log)].op = "index"

(***************************************************************************)
(* C6: a run that fails during the walk writes no index.json (the          *)
(* destination keeps the index.json it had when the run started, or none), *)
(* and every record the run wrote before the failure is in place with the  *)
(* record of its node.                                                     *)
(***************************************************************************)
C6_PartialProgress ==
    pc = "failed" =>
       /\ IndexWrites = {}
       /\ indexFile = IF cleaned THEN NoIndexFile ELSE prev.indexFile
       /\ \A i \in RecordWrites :
             /\ log[i].path \in DOMAIN files
             /\ files[log[i].path] = class_to_dict(Node(log[i].code), lang)

C6_Witness ==
    /\ pc = "failed" /\ err = "KeyError"
    /\ rootIdx = 3
    /\ \E i \in RecordWrites : log[i].code = "b" /\ log[i].path = <<"b", "b.json">>
    /\ <<"b", "b.json">> \in DOMAIN files
    /\ ~indexFile.exists

(***************************************************************************)
(* C7: after a completed export every index entry code -> path is the      *)
(* path of the codes from a root down to the node, then <code>.json; the   *)
(* record file at that path exists and its code field is the index key.    *)
(***************************************************************************)
IsWalkPath(p, c) ==
    /\ Len(p) >= 2
    /\ p[Len(p)] = JsonNames[c]
    /\ p[Len(p) - 1] = c
    /\ p[1] \in Roots
    /\ \A k \in 1..(Len(p) - 2) : p[k + 1] \in Kids(p[k])

C7_IndexPaths ==
    pc = "done" =>
       \A i \in DOMAIN indexFile.content :
          LET c == indexFile.content[i][1]
              p == indexFile.content[i][2]
          IN  /\ IsWalkPath(p, c)
              /\ p \in DOMAIN files
              /\ files[p].code = c

(***************************************************************************)
(* C8: a second run with the same document and language into the same      *)
(* destination rewrites the same records and leaves every record file and  *)
(* index.json as the first run left them, and ends as the first run did;   *)
(* two runs into emptied destinations give equal index.json.               *)
(***************************************************************************)
C8_Idempotent ==
    (Ended /\ run >= 2) =>
       /\ ~cleaned => /\ files = prev.files
                      /\ indexFile = prev.indexFile
                      /\ log = prev.log
                      /\ pc = prev.pc
       /\ (cleaned /\ prev.cleaned) => /\ indexFile = prev.indexFile
                                       /\ files = prev.files

C8_Witness ==
    /\ pc = "done" /\ run = 2 /\ ~cleaned
    /\ prev.pc = "done"
    /\ Cardinality(DOMAIN files) >= 3
    /\ Len(indexFile.content) >= 2

(***************************************************************************)
(* C9: extract_rubrics returns, in declaration order and with repeats      *)
(* kept, one text for every label of the kind that has a non-blank text    *)
(* and whose language tag is the requested language or absent: the label's *)
(* text with its whitespace collapsed.  Labels of another language are     *)
(* never returned; no match gives the empty list.                          *)
(***************************************************************************)
RECURSIVE LabelsOfKind(_, _)
LabelsOfKind(rubrics, kind) ==
    IF rubrics = <<>> THEN <<>>
    ELSE (IF Head(rubrics).kind = kind THEN Head(rubrics).labels ELSE <<>>)
         \o LabelsOfKind(Tail(rubrics), kind)

TextOf(label) == IF label.text = NoText THEN <<>> ELSE label.text
IsInk(ch) == ch \notin Whitespace
Resolves(label) ==
    /\ label.lang \in {qlang, NoLang}
    /\ \E i \in DOMAIN TextOf(label) : IsInk(TextOf(label)[i])
\* r is t with every run of whitespace collapsed to one space and none at the ends
Collapsed(r, t) ==
    /\ SelectSeq(r, IsInk) = SelectSeq(t, IsInk)
    /\ r # <<>> /\ IsInk(r[1]) /\ IsInk(r[Len(r)])
    /\ \A i \in DOMAIN r : ~IsInk(r[i]) => r[i] = " " /\ IsInk(r[i + 1])
    /\ Cardinality({i \in DOMAIN r : ~IsInk(r[i])}) =
          Cardinality({i \in DOMAIN t : i > 1 /\ IsInk(t[i]) /\ ~IsInk(t[i - 1])
                                        /\ \E j \in 1..(i - 1) : IsInk(t[j])})

C9_ExtractRubrics ==
    fpc = "extracted" =>
       LET kept == SelectSeq(LabelsOfKind(cls.rubrics, qkind), Resolves)
       IN  /\ Len(texts) = Len(kept)
           /\ \A i \in DOMAIN texts : Collapsed(texts[i], TextOf(kept[i]))

C9_Witness ==
    /\ fpc = "extracted" /\ qlang = "de" /\ qkind = "preferred"
    /\ cls.rubrics = <<[kind |-> "preferred",
                        labels |-> <<[lang |-> "en", text |-> <<"x">>],
                                     [lang |-> NoLang,
                                      text |-> <<" ", "x", " ", "\n", "y", " ">>]>>]>>
    /\ texts = <<<<"x", " ", "y">>>>

(***************************************************************************)
(* C10: class_to_dict sets the preferred fields from the resolved          *)
(* preferred-label list L: none of them when L is empty; preferred alone   *)
(* when L has one value; preferred = the first and preferred_full = L when *)
(* L has more than one.                                                    *)
(***************************************************************************)
C10_PreferredFields ==
    fpc = "converted" =>
       LET L == extract_rubrics(cls, "preferred", qlang)
       IN  /\ Len(L) = 0 => {"preferred", "preferred_full"} \cap DOMAIN data = {}
           /\ Len(L) = 1 => /\ "preferred" \in DOMAIN data
                            /\ data["preferred"] = L[1]
                            /\ "preferred_full" \notin DOMAIN data
           /\ Len(L) > 1 => /\ {"preferred", "preferred_full"} \subseteq DOMAIN data
                            /\ data["preferred"] = L[1]
                            /\ data["preferred_full"] = L

C10_Witness ==
    /\ fpc = "converted"
    /\ Len(extract_rubrics(cls, "preferred", qlang)) = 2
    /\ Len(cls.rubrics) = 2
    /\ data["preferred_full"] = <<<<"x">>, <<"x", " ", "y">>>>

(***************************************************************************)
(* C11: every record class_to_dict produces holds code, kind and children  *)
(* (the declared child codes, in document order, unvalidated); for each    *)
(* annotation kind other than preferred it holds the pluralized field      *)
(* exactly when the kind has at least one resolved value, and the field is *)
(* then that non-empty list; it holds no other field.                      *)
(***************************************************************************)
PluralKinds == {RUBRIC_KINDS[i] : i \in {j \in DOMAIN RUBRIC_KINDS : RUBRIC_KINDS[j] # "preferred"}}

C11_SparseRecord ==
    fpc = "converted" =>
       /\ {"code", "kind", "children"} \subseteq DOMAIN data
       /\ data["code"] = cls.code /\ data["kind"] = cls.kind
       /\ data["children"] = cls.subs
       /\ \A k \in PluralKinds :
             LET L == extract_rubrics(cls, k, qlang)
             IN  /\ Plural[k] \in DOMAIN data <=> L # <<>>
                 /\ Plural[k] \in DOMAIN data => data[Plural[k]] = L
       /\ DOMAIN data \subseteq {"code", "kind", "children", "preferred", "preferred_full"}
                                 \cup {Plural[k] : k \in PluralKinds}

C11_Witness ==
    /\ fpc = "converted" /\ cls.subs = <<"d", "e">>
    /\ \E i \in DOMAIN cls.rubrics : cls.rubrics[i].kind = "definition"
    /\ "definitions" \notin DOMAIN data
    /\ "preferred" \in DOMAIN data

(***************************************************************************)
(* C12: after export_icf and create_flat_json, for every code of the index *)
(* the flattened view holds under that code the very record load_class     *)
(* returns for it; were a record file missing, its entry would be skipped  *)
(* with a warning and the other entries still flattened.                   *)
(***************************************************************************)
C12_FlatRoundTrip ==
    (pc = "done" /\ view.op = "create_flat_json") =>
       /\ view.err = "none"
       /\ flatFile = [exists |-> TRUE, content |-> view.result]
       /\ \A code \in DictKeys(indexFile.content) :
             LET lc == load_class(code, indexFile, files)
             IN  /\ lc.err = "none"
                 /\ DictHas(view.result, code)
                 /\ DictGet(view.result, code) = lc.value

(***************************************************************************)
(* C13: stats reports total_classes = the number of index entries whose    *)
(* record file is readable, max_depth = the largest number of "/" among    *)
(* the paths of the readable entries (0 when there is none), avg_children  *)
(* = the mean of their children counts rounded to two decimals (kept in    *)
(* hundredths; 0 when there is none); a missing entry counts for none of   *)
(* them and is warned about.                                               *)
(***************************************************************************)
RECURSIVE SumOver(_, _)
SumOver(S, f) ==
    IF S = {} THEN 0
    ELSE LET x == CHOOSE y \in S : TRUE IN f[x] + SumOver(S \ {x}, f)
ReadableAt == {i \in DOMAIN indexFile.content : indexFile.content[i][2] \in DOMAIN files}
SlashesAt == [i \in ReadableAt |->
                Cardinality({k \in 2..Len(indexFile.content[i][2]) : TRUE})]
KidsAt == [i \in ReadableAt |-> Len(files[indexFile.content[i][2]]["children"])]

C13_Stats ==
    (view.op = "stats" /\ view.err = "none") =>
       LET n == Cardinality(ReadableAt)
           total == SumOver(ReadableAt, KidsAt)
           r == view.result
       IN  /\ r.total_classes = n
           /\ n = 0 => r.max_depth = 0 /\ r.avg_children = 0
           /\ n > 0 => /\ \E i \in ReadableAt : r.max_depth = SlashesAt[i]
                       /\ \A i \in ReadableAt : r.max_depth >= SlashesAt[i]
                       /\ 2 * (r.avg_children * n - 100 * total) <= n
                       /\ 2 * (100 * total - r.avg_children * n) <= n
           /\ \A i \in DOMAIN indexFile.content :
                 i \notin ReadableAt =>
                    \E j \in DOMAIN view.warns : view.warns[j] = indexFile.content[i][1]

\* children counts [0, 2, 4] at depths [1, 1, 2] give 3, 2 and 2.0
C13_Witness ==
    /\ view.op = "stats"
    /\ [i \in DOMAIN indexFile.content |->
           IF i \in ReadableAt THEN <<KidsAt[i], SlashesAt[i]>> ELSE <<>>]
          = <<<<0, 1>>, <<2, 1>>, <<4, 2>>>>
    /\ view.result = [total_classes |-> 3, max_depth |-> 2, avg_children |-> 200]

(***************************************************************************)
(* C14: on an exported tree (well-formed, acyclic, every declared child    *)
(* present) list_children(code, depth = d), local or through the client,   *)
(* returns without error the codes of exactly the descendants at most d    *)
(* levels below code; with d = 1 it returns the record's children list as  *)
(* declared.                                                               *)
(***************************************************************************)
RECURSIVE Within(_, _)
Within(S, d) ==
    IF d = 0 THEN {}
    ELSE LET K == UNION {Kids(c) : c \in S} IN K \cup Within(K, d - 1)
ListCalled == view.op \in {"list_children", "client.list_children"}
Elements(s) == {s[i] : i \in DOMAIN s}

C14_ListChildren ==
    (/\ pc = "done" /\ WellFormed /\ Acyclic
     /\ \A c \in Defined : MissingKids(c) = {}
     /\ ListCalled /\ view.code \in Reachable) =>
       /\ view.err = "none"
       /\ Elements(view.result) = Within({view.code}, view.depth)
       /\ view.depth = 1 => view.result = Node(view.code).subs

(***************************************************************************)
(* C15: when a record declares a child code that has no source node, the   *)
(* export completes and list_children over that record, local or through   *)
(* the client, at any depth >= 1, returns without error a list that does   *)
(* not hold the missing code.  Stated for the trees whose records all lie  *)
(* at their index paths.                                                   *)
(***************************************************************************)
C15_MissingChildViews ==
    (/\ pc = "done" /\ WellFormed /\ Acyclic
     /\ \A i \in DOMAIN indexFile.content : indexFile.content[i][2] \in DOMAIN files
     /\ ListCalled /\ view.code \in Reachable
     /\ MissingKids(view.code) # {}) =>
       /\ view.err = "none"
       /\ Elements(view.result) \cap MissingKids(view.code) = {}

(***************************************************************************)
(* C16: load_class and list_children (local, and through the client once   *)
(* it has the index) called with a root code that has no index entry fail  *)
(* with KeyError before any record is read or fetched, and leave the       *)
(* stored records, the index and the client's cache as they were.          *)
(***************************************************************************)
AbsentRootCall(v) ==
    /\ \/ v.op \in {"load_class", "list_children"}
       \/ v.op = "client.list_children" /\ v.net = "up"
    /\ ~DictHas(indexFile.content, v.code)

C16_AbsentRoot ==
    [][AbsentRootCall(view') =>
          /\ view'.err = "KeyError"
          /\ view'.reads = <<>>
          /\ UNCHANGED <<files, dirs, indexFile, flatFile, cache>>]_vars

C16_Witness ==
    /\ view.op = "client.list_children" /\ view.code = "e" /\ view.net = "up"
    /\ view.err = "KeyError"
    /\ calls = 2 /\ cache # NoCache

(***************************************************************************)
(* C17: search_text (local and client) returns the matching records in     *)
(* index order; with a positive limit L the result is the first L matches  *)
(* in index order (all of them when there are fewer), and the scan stops   *)
(* at the entry that gave the L-th match: no entry after it is read or     *)
(* fetched.                                                                *)
(***************************************************************************)
SearchCalled == view.op \in {"search_text", "client.search_text"} /\ view.err = "none"
\* the record search_text obtained for entry i: the file, or what fetch_class
\* returned (and cached) for its path
Obtained(i) ==
    LET rel == indexFile.content[i][2]
    IN  IF view.op = "search_text"
        THEN IF rel \in DOMAIN files THEN files[rel] ELSE None
        ELSE IF rel \in DOMAIN cache THEN cache[rel] ELSE None
IsMatch(i) ==
    /\ Obtained(i) # None
    /\ IF view.op = "search_text"
       THEN Matches(Obtained(i), DEFAULT_FIELDS, Lower(view.query))
       ELSE ClientMatches(Obtained(i), DEFAULT_FIELDS, Lower(view.query))
RECURSIVE MatchesUpTo(_)
MatchesUpTo(k) ==
    IF k = 0 THEN <<>>
    ELSE MatchesUpTo(k - 1) \o (IF IsMatch(k) THEN <<Obtained(k)>> ELSE <<>>)
\* the files an entry's lookup may touch: its path and the alternatives
Touched(i) ==
    LET rel == indexFile.content[i][2]
    IN  {rel} \cup Elements(alternatives(CodeOfPath(rel)))

C17_SearchOrderLimit ==
    (SearchCalled /\ (view.limit >= 1 \/ view.op = "search_text")) =>
       \E k \in 0..Len(indexFile.content) :
          /\ view.result = MatchesUpTo(k)
          /\ \/ k = Len(indexFile.content)
             \/ view.limit >= 1 /\ Len(view.result) = view.limit /\ IsMatch(k)
          /\ view.limit >= 1 => Len(view.result) <= view.limit
          /\ \A j \in DOMAIN view.reads :
                \E i \in 1..k : view.reads[j] \in Touched(i)
          /\ view.op = "client.search_text" =>
                \A i \in 1..k : indexFile.content[i][2] \in DOMAIN cache

C17_Witness ==
    /\ SearchCalled /\ view.op = "client.search_text" /\ view.limit = 1
    /\ Len(indexFile.content) = 2
    /\ IsMatch(1) /\ Len(view.result) = 1
    /\ indexFile.content[2][2] \in DOMAIN files
    /\ indexFile.content[2][2] \notin DOMAIN cache
    /\ view.reads = <<indexFile.content[1][2]>>

(***************************************************************************)
(* C18: once fetch_class has returned for a path, whatever the outcome     *)
(* (record, fallback record, placeholder or None), every later fetch_class *)
(* of that path sends no request and returns the same value; no call of    *)
(* fetch_class, search_text, list_children or stats removes or replaces a  *)
(* cache entry.                                                            *)
(***************************************************************************)
C18_CacheStable ==
    [][/\ \A p \in DOMAIN cache : p \in DOMAIN cache' /\ cache'[p] = cache[p]
       /\ calls' = calls + 1 =>
             /\ \A p \in DOMAIN cache : p \notin Elements(view'.reads)
             /\ view'.op = "fetch_class" =>
                   /\ view'.path \in DOMAIN cache' /\ cache'[view'.path] = view'.result
                   /\ view'.path \in DOMAIN cache =>
                         view'.reads = <<>> /\ view'.result = cache[view'.path]]_vars

\* a second fetch_class of a path whose first fetch failed: None again, with
\* no request, although the network is up and the file is there
C18_Witness ==
    /\ calls = 2 /\ view.op = "fetch_class" /\ view.net = "up"
    /\ view.path \in DOMAIN files
    /\ view.reads = <<>> /\ view.result = None
    /\ cache[view.path] = None

(***************************************************************************)
(* C19: every record fetch_class returns for the path of an index entry    *)
(* code -> path, nested paths included, carries that code: a genuine       *)
(* record, a record found at an alternative address and the placeholder    *)
(* alike.                                                                  *)
(***************************************************************************)
C19_SameCode ==
    (view.op = "fetch_class" /\ view.result # None) =>
       \E i \in DOMAIN indexFile.content :
          /\ indexFile.content[i][2] = view.path
          /\ indexFile.content[i][1] = view.result["code"]

(***************************************************************************)
(* C20 as stated: whenever the primary address fails, fetch_class returns  *)
(* a record or the placeholder, never an exception and never None.         *)
(***************************************************************************)
FetchFailed ==
    /\ view.op = "fetch_class" /\ view.reads # <<>>
    /\ GetStatus(view.path, files, view.net) # "200"

C20_NeverNone ==
    FetchFailed => view.err = "none" /\ view.result # None

(***************************************************************************)
(* C20 amended: fetch_class never raises.  When the primary address is not *)
(* found (404) it returns the record at the first alternative address that *)
(* answers, or else the placeholder; when the primary request fails in any *)
(* other way (another HTTP status, no connection) it returns None and      *)
(* caches it.                                                              *)
(***************************************************************************)
C20_FallbackOn404 ==
    FetchFailed =>
       /\ view.err = "none"
       /\ IF GetStatus(view.path, files, view.net) = "404"
          THEN LET alts == alternatives(view.path[1])
                   there == {k \in DOMAIN alts : alts[k] \in DOMAIN files}
               IN  /\ view.result # None
                   /\ there = {} => view.result = fallback_data(view.path[1])
                   /\ there # {} =>
                         \E k \in there : /\ \A j \in there : k <= j
                                          /\ view.result = files[alts[k]]
          ELSE view.result = None /\ cache[view.path] = None

C20_Witness ==
    /\ FetchFailed /\ view.net = "up"
    /\ view.path = <<"d", "d.json">>
    /\ view.result = fallback_data("d")
    /\ Len(view.reads) = 4
    /\ cache[view.path] = view.result

(***************************************************************************)
(* C21: the client's stats reports effective counts: total_classes is the  *)
(* number of index entries whose record was obtained, max_depth and        *)
(* avg_children range over those entries only, and the result is the one   *)
(* the local stats gives over the same index and records.                  *)
(***************************************************************************)
ObtainedAt == {i \in DOMAIN indexFile.content :
                 /\ indexFile.content[i][2] \in DOMAIN cache
                 /\ cache[indexFile.content[i][2]] # None}

C21_StatsAgree ==
    (view.op = "client.stats" /\ view.err = "none") =>
       /\ view.result.total_classes = Cardinality(ObtainedAt)
       /\ \A i \in DOMAIN indexFile.content :
             i \notin ObtainedAt =>
                view.result.max_depth # CountSlashes(indexFile.content[i][2])
                \/ \E j \in ObtainedAt :
                      view.result.max_depth = CountSlashes(indexFile.content[j][2])
       /\ view.result = stats(indexFile, files).value

(***************************************************************************)
(* C22: the views are read-only over the export: no call of load_class,    *)
(* search_text, list_children or stats (each loads the index first)        *)
(* changes a record file, a directory or index.json, nor the flattened     *)
(* artifact; create_flat_json changes nothing but icf_flat.json, which     *)
(* then holds the flattened view.                                          *)
(***************************************************************************)
LocalViews == {"load_class", "list_children", "search_text", "stats", "create_flat_json"}

C22_ViewsReadOnly ==
    [][view'.op \in LocalViews =>
          /\ UNCHANGED <<files, dirs, indexFile>>
          /\ view'.op # "create_flat_json" => UNCHANGED flatFile
          /\ view'.op = "create_flat_json" =>
                flatFile' = IF view'.err = "none"
                            THEN [exists |-> TRUE, content |-> view'.result]
                            ELSE flatFile]_vars

\* stats after create_flat_json on a destination with a missing record
C22_Witness ==
    /\ view.op = "stats" /\ view.err = "none"
    /\ view.warns # <<>>
    /\ flatFile.exists /\ flatFile.content # <<>>
    /\ Cardinality(DOMAIN files) >= 2

=============================================================================
